---- MODULE Spec2Model ----
(***************************************************************************)
(* The concrete parse tree of jedi/parser/pytree.py: Leaf and Node         *)
(* objects on a heap, the tree builder convert, Node.append_child, the     *)
(* prefix property of Node, and type_repr with its module-level cache.     *)
(*                                                                         *)
(* Objects are heap cells numbered 1..Len(heap) in order of construction;  *)
(* a Python reference is the cell's number and None is 0.  Strings are     *)
(* TLA+ strings, so prefix + value is \o.  The interpreter is Python 3     *)
(* (lines 125-126 and 189-190: __str__ is __unicode__).                    *)
(***************************************************************************)
EXTENDS Integers, Sequences, FiniteSets, TLC

VARIABLES
    heap,         \* the objects built so far: Seq of Leaf / Node cells
    _type_reprs,  \* the module-level cache of type_repr (line 20)
    ret,          \* the last call: what it was given and what it returned or raised
    tokens,       \* parser driver: the leaf records of the source, in order
    pos,          \* parser driver: the next token to shift
    stack         \* parser driver: the subtrees built and not yet reduced

vars == <<heap, _type_reprs, ret, tokens, pos, stack>>

(***************************************************************************)
(* Bounds of the model.                                                    *)
(***************************************************************************)
MaxObjs == 3        \* objects on the heap under Spec
MaxLinks == 2       \* children links on the heap, all Nodes together, under Spec
MaxTokens == 3      \* tokens of a source text under SpecParse
MaxParseNodes == 2  \* interior nodes built during one parse under SpecParse

(***************************************************************************)
(* Program constants.                                                      *)
(***************************************************************************)
None == 0           \* Base.parent = None
NT_OFFSET == 256    \* symbol numbers are >= 256, token numbers < 256

(***************************************************************************)
(* The grammar tables (pgen2, outside this file): every nonterminal has a  *)
(* distinct code >= 256.  simple_stmt, classdef and funcdef are the names  *)
(* _ast_mapping needs; file_input stands for the symbols it does not name. *)
(***************************************************************************)
symbol2number ==
    [file_input |-> 256, simple_stmt |-> 257, classdef |-> 258, funcdef |-> 259]

\* Symbols.__init__: one attribute per grammar symbol, its value the code.
python_symbols == [name \in DOMAIN symbol2number |-> symbol2number[name]]

number2symbol ==
    [c \in {symbol2number[n] : n \in DOMAIN symbol2number} |->
        CHOOSE n \in DOMAIN symbol2number : symbol2number[n] = c]

\* _ast_mapping: symbol name -> specialized class.
_ast_mapping == [simple_stmt |-> "ExprStmt", classdef |-> "Class", funcdef |-> "Function"]

\* ast_mapping = dict((getattr(python_symbols, k), v) for k, v in _ast_mapping.items())
ast_mapping ==
    [c \in {python_symbols[k] : k \in DOMAIN _ast_mapping} |->
        _ast_mapping[CHOOSE k \in DOMAIN _ast_mapping : python_symbols[k] = c]]

(***************************************************************************)
(* Values of mixed Python type (a str or an int) are tagged records.       *)
(***************************************************************************)
PyStr(s) == [tag |-> "str", s |-> s, i |-> 0]
PyInt(i) == [tag |-> "int", s |-> "", i |-> i]

(***************************************************************************)
(* type_repr (lines 57-65).                                                *)
(***************************************************************************)
\* lines 59-64: an empty cache is filled from python_symbols.__dict__
PopulateMissing(cache) == cache
Populate(cache) ==
    IF DOMAIN cache = {}
    THEN [c \in {python_symbols[n] : n \in DOMAIN python_symbols} |->
            PyStr(CHOOSE n \in DOMAIN python_symbols : python_symbols[n] = c)]
    ELSE cache

\* dict.setdefault(k, v): the dict afterwards and the value returned
SetDefault(d, k, v) ==
    IF k \in DOMAIN d THEN [dict |-> d, val |-> d[k]]
    ELSE [dict |-> d @@ (k :> v), val |-> v]

\* type_repr(type_num): the cache afterwards and the value returned
type_repr(cache, type_num) ==
    LET r == SetDefault(Populate(cache), type_num, PyInt(type_num))
    IN  [cache |-> r.dict, val |-> r.val]

(***************************************************************************)
(* Base, Leaf, Node.                                                       *)
(***************************************************************************)
IsLeaf(h, x) == h[x].cls = "Leaf"
\* The specialized classes are taken to be Nodes (same prefix, children).
IsNode(h, x) == h[x].cls \in {"Node", "Special"}

\* for ch in self.children: ch.parent = self  (lines 108-109)
SetParentsSkip(h, children, n) == h
SetParents(h, children, n) ==
    [i \in DOMAIN h |->
        IF \E j \in DOMAIN children : children[j] = i
        THEN [h[i] EXCEPT !.parent = n] ELSE h[i]]

\* Node.__init__(type, children): the new Node is cell Len(h) + 1
NodeCell(cls, type, children) ==
    [cls |-> cls, type |-> type, parent |-> None, children |-> children,
     prefix |-> "", value |-> "", start_pos |-> <<0, 0>>]

NodeInit(h, type, children) ==
    SetParents(Append(h, NodeCell("Node", type, children)), children, Len(h) + 1)

\* Leaf.__init__(type, value, start_pos, prefix): the new Leaf is cell Len(h) + 1
LeafInitNoPrefix(h, type, value, start_pos, prefix) ==
    Append(h, [cls |-> "Leaf", type |-> type, parent |-> None, children |-> <<>>,
               prefix |-> "", value |-> value, start_pos |-> start_pos])
LeafInit(h, type, value, start_pos, prefix) ==
    Append(h, [cls |-> "Leaf", type |-> type, parent |-> None, children |-> <<>>,
               prefix |-> prefix, value |-> value, start_pos |-> start_pos])

\* Node.append_child(child): child.parent = self; self.children.append(child)
append_child(h, n, child) ==
    LET h1 == [h EXCEPT ![child].parent = n]
    IN  [h1 EXCEPT ![n].children = Append(@, child)]

(***************************************************************************)
(* The prefix property.  Python recurses down children[0]; a chain that    *)
(* visits more cells than the heap holds is on a cycle and ends in         *)
(* RecursionError.                                                         *)
(***************************************************************************)
RECURSIVE prefix_get(_, _, _)
prefix_get(h, x, fuel) ==
    IF fuel = 0 THEN [err |-> "RecursionError", val |-> ""]
    ELSE IF IsLeaf(h, x) THEN [err |-> "none", val |-> h[x].prefix]
    ELSE IF h[x].children = <<>> THEN [err |-> "none", val |-> ""]
    ELSE prefix_get(h, h[x].children[1], fuel - 1)

RECURSIVE prefix_set(_, _, _, _)
prefix_setNoRaise(h, x, prefix, fuel) ==
    IF fuel = 0 THEN [err |-> "RecursionError", heap |-> h]
    ELSE IF IsLeaf(h, x) THEN [err |-> "none", heap |-> [h EXCEPT ![x].prefix = prefix]]
    ELSE IF h[x].children # <<>> THEN prefix_set(h, h[x].children[1], prefix, fuel - 1)
    ELSE [err |-> "none", heap |-> h]
prefix_setStoresHere(h, x, prefix, fuel) ==
    [err |-> "none", heap |-> [h EXCEPT ![x].prefix = prefix]]
prefix_set(h, x, prefix, fuel) ==
    IF fuel = 0 THEN [err |-> "RecursionError", heap |-> h]
    ELSE IF IsLeaf(h, x) THEN [err |-> "none", heap |-> [h EXCEPT ![x].prefix = prefix]]
    ELSE IF h[x].children # <<>> THEN prefix_set(h, h[x].children[1], prefix, fuel - 1)
    ELSE [err |-> "NotImplementedError", heap |-> h]

(***************************************************************************)
(* Node.__repr__ (lines 111-115) prints its children, each Node among them *)
(* through its own __repr__: it does not return when a Node it reaches     *)
(* lies on a cycle of children links.  Leaf.__repr__ prints no children.   *)
(***************************************************************************)
Range(s) == {s[i] : i \in DOMAIN s}

RECURSIVE Desc(_, _, _)
Desc(h, S, fuel) ==
    LET T == S \cup UNION {Range(h[x].children) : x \in S}
    IN  IF fuel = 0 \/ T = S THEN S ELSE Desc(h, T, fuel - 1)

OnCycle(h, x) == x \in Desc(h, Range(h[x].children), Len(h))

\* Node.__init__ links a new cell to older ones only, so a cycle needs a link
\* that append_child made, from a cell to itself or to a newer one.
HasBackLink(h) == \E n \in DOMAIN h : \E i \in DOMAIN h[n].children : h[n].children[i] >= n

ReprDiverges(h, children) ==
    /\ HasBackLink(h)
    /\ \E x \in Desc(h, Range(children), Len(h)) : OnCycle(h, x)

(***************************************************************************)
(* The specialized constructors ExprStmt, Class and Function               *)
(* (jedi.parser.representation, outside this file), called with the        *)
(* children alone.  A call either builds a node of the reduced symbol that *)
(* owns the children, or raises; what it raises is the constructor's       *)
(* choice, KeyError included.                                              *)
(***************************************************************************)
CtorOutcomes == {"ok", "KeyError", "TypeError"}

SpecialInit(h, type, children) ==
    SetParents(Append(h, NodeCell("Special", type, children)), children, Len(h) + 1)

(***************************************************************************)
(* convert(grammar, raw_node)  (lines 196-219), raw_node being             *)
(* (type, value, context, children) and context (prefix, start_pos).       *)
(* outcome is what the specialized constructor does if it is called.       *)
(* The result: the heap and the cache afterwards, the exception raised     *)
(* ("none" for a return), the object returned, the class constructed       *)
(* ("none" when nothing was) and whether the constructor was called.       *)
(***************************************************************************)
ConvertResult(h, cache, err, obj, created, ctor) ==
    [heap |-> h, cache |-> cache, err |-> err, obj |-> obj,
     created |-> created, ctor |-> ctor]

\* line 206: type in grammar.number2symbol
IsSymbolByNumber(type) == type >= NT_OFFSET
IsSymbol(type) == type \in DOMAIN number2symbol

\* line 209: len(children) == 1
CollapsesNever(children) == FALSE
CollapsesOnTwo(children) == Len(children) = 2
Collapses(children) == Len(children) = 1

\* lines 212-215: try: return ast_mapping[type](children)
\*                except KeyError: return Node(type, children)
Dispatch(h, cache, type, children, outcome) ==
    IF type \in DOMAIN ast_mapping /\ outcome = "ok"
    THEN ConvertResult(SpecialInit(h, type, children), cache, "none",
                       Len(h) + 1, "Special", "ok")
    ELSE IF type \in DOMAIN ast_mapping /\ outcome # "KeyError"
    THEN ConvertResult(h, cache, outcome, None, "none", outcome)
    ELSE ConvertResult(NodeInit(h, type, children), cache, "none", Len(h) + 1, "Node",
                       IF type \in DOMAIN ast_mapping THEN outcome ELSE "notcalled")

convert(h, cache, type, value, context, children, outcome) ==
    IF IsSymbol(type)
    THEN IF Collapses(children)
         THEN ConvertResult(h, cache, "none", children[1], "none", "notcalled")
         ELSE LET tr == type_repr(cache, type)      \* line 211: print(...)
              IN  IF ReprDiverges(h, children)
                  THEN ConvertResult(h, tr.cache, "RecursionError", None, "none",
                                     "notcalled")
                  ELSE Dispatch(h, tr.cache, type, children, outcome)
    ELSE LET tr == type_repr(cache, type)           \* line 217: print(...)
         IN  ConvertResult(LeafInit(h, type, value, context[2], context[1]),
                           tr.cache, "none", Len(h) + 1, "Leaf", "notcalled")

(***************************************************************************)
(* The calls a client makes, and the inputs they are drawn from.           *)
(***************************************************************************)
NAME == {1}                       \* a token code (pgen2.token.NAME)
NEWLINE == {4}                    \* a token code (pgen2.token.NEWLINE)
Unregistered == {300}             \* a code >= 256 the grammar does not assign
ClientTokenTypes == NAME
ClientSymbolTypes == {symbol2number.file_input}
RecordTokenTypes == NAME \cup Unregistered
RecordSymbolTypes == {symbol2number.file_input, symbol2number.simple_stmt}
Values == {"x"}
Prefixes == {""}
NewPrefixes == {"#"}
StartPos == {<<1, 0>>}

Objs == 1..Len(heap)

RECURSIVE Links(_, _)
Links(h, n) == IF n = 0 THEN 0 ELSE Len(h[n].children) + Links(h, n - 1)

\* the children sequences over cells 1..n of length up to room
KidSeqs(n, room) == UNION {[1..k -> 1..n] : k \in 0..room}

Room == MaxLinks - Links(heap, Len(heap))

NoRet ==
    [op |-> "none", obj |-> None, p |-> "", ctor |-> "notcalled", err |-> "none",
     created |-> "none", type |-> 0, val |-> PyStr("")]

Driver == <<tokens, pos, stack>>

\* convert(grammar, (type, value, (prefix, start_pos), children)) by any caller
ConvertCall(type, value, context, children, outcome) ==
    LET r == convert(heap, _type_reprs, type, value, context, children, outcome)
    IN  /\ Len(r.heap) <= MaxObjs
        /\ r.created \in {"Node", "Special"} => Len(children) <= Room
        /\ heap' = r.heap
        /\ _type_reprs' = r.cache
        /\ ret' = [NoRet EXCEPT !.op = "convert", !.ctor = r.ctor, !.err = r.err,
                                !.obj = r.obj, !.created = r.created]

ConvertTokenOf(types) ==
    \E type \in types, value \in Values, prefix \in Prefixes, sp \in StartPos :
        /\ ConvertCall(type, value, <<prefix, sp>>, <<>>, "ok")
        /\ UNCHANGED Driver

ConvertReductionOf(types) ==
    \E type \in types, children \in KidSeqs(Len(heap), Room) \cup KidSeqs(Len(heap), 1),
       outcome \in CtorOutcomes :
        /\ (type \notin DOMAIN ast_mapping \/ Len(children) = 1) => outcome = "ok"
        /\ ConvertCall(type, "", <<"", <<0, 0>>>>, children, outcome)
        /\ UNCHANGED Driver

ConvertToken == ConvertTokenOf(ClientTokenTypes)
ConvertReduction == ConvertReductionOf(ClientSymbolTypes)
ConvertAnyToken == ConvertTokenOf(RecordTokenTypes)
ConvertAnyReduction == ConvertReductionOf(RecordSymbolTypes)

\* Node(type, children) by any caller
NodeCall ==
    \E type \in ClientSymbolTypes, children \in KidSeqs(Len(heap), Room) :
        /\ Len(heap) < MaxObjs
        /\ heap' = NodeInit(heap, type, children)
        /\ ret' = [NoRet EXCEPT !.op = "Node", !.obj = Len(heap) + 1,
                                !.created = "Node"]
        /\ UNCHANGED <<_type_reprs, Driver>>

\* node.append_child(child)
AppendChildCall ==
    \E n \in Objs, child \in Objs :
        /\ IsNode(heap, n)
        /\ Room > 0
        /\ heap' = append_child(heap, n, child)
        /\ ret' = [NoRet EXCEPT !.op = "append_child", !.obj = n]
        /\ UNCHANGED <<_type_reprs, Driver>>

\* x.prefix = p
SetPrefixCall ==
    \E x \in Objs, p \in NewPrefixes :
        LET r == prefix_set(heap, x, p, Len(heap) + 1)
        IN  /\ heap' = r.heap
            /\ ret' = [NoRet EXCEPT !.op = "set_prefix", !.obj = x, !.p = p,
                                    !.err = r.err]
            /\ UNCHANGED <<_type_reprs, Driver>>

Init ==
    /\ heap = <<>>
    /\ _type_reprs = <<>>
    /\ ret = NoRet
    /\ tokens = <<>>
    /\ pos = 1
    /\ stack = <<>>

Next ==
    \/ ConvertToken
    \/ ConvertReduction
    \/ NodeCall
    \/ AppendChildCall
    \/ SetPrefixCall

Spec == Init /\ [][Next]_vars

(***************************************************************************)
(* SpecBuild: every Node is built by convert and grown by append_child.    *)
(***************************************************************************)
NextBuild ==
    \/ ConvertToken
    \/ ConvertReduction
    \/ AppendChildCall

SpecBuild == Init /\ [][NextBuild]_vars

(***************************************************************************)
(* SpecConvert: convert called on records of every kind: a token code, a   *)
(* code no table holds, a symbol with and without a specialized class.     *)
(***************************************************************************)
NextConvert ==
    \/ ConvertAnyToken
    \/ ConvertAnyReduction

SpecConvert == Init /\ [][NextConvert]_vars

(***************************************************************************)
(* SpecRepr: type_repr called with any code, in any order.                 *)
(***************************************************************************)
QueryCodes ==
    {0} \cup NAME \cup NEWLINE \cup {255} \cup Unregistered \cup {301}
        \cup DOMAIN number2symbol

TypeReprCall ==
    \E c \in QueryCodes :
        LET r == type_repr(_type_reprs, c)
        IN  /\ _type_reprs' = r.cache
            /\ ret' = [NoRet EXCEPT !.op = "type_repr", !.type = c, !.val = r.val]
            /\ UNCHANGED <<heap, Driver>>

NextRepr == TypeReprCall

SpecRepr == Init /\ [][NextRepr]_vars

(***************************************************************************)
(* Textual reconstruction and traversal.                                   *)
(***************************************************************************)
RECURSIVE Concat(_)
Concat(strs) == IF strs = <<>> THEN "" ELSE Head(strs) \o Concat(Tail(strs))

RECURSIVE Flatten(_)
Flatten(seqs) == IF seqs = <<>> THEN <<>> ELSE Head(seqs) \o Flatten(Tail(seqs))

\* Leaf.__unicode__: self.prefix + str(self.value); value is a str
LeafStr(cell) == cell.prefix \o cell.value

\* Node.__unicode__: "".join(map(str, self.children))
RECURSIVE Str(_, _)
Str(h, x) ==
    IF IsLeaf(h, x) THEN LeafStr(h[x])
    ELSE Concat([i \in DOMAIN h[x].children |-> Str(h, h[x].children[i])])

\* Base.leaves / Leaf.leaves: the leaves below x, in the order they are yielded
RECURSIVE leaves(_, _)
leaves(h, x) ==
    IF IsLeaf(h, x) THEN <<x>>
    ELSE Flatten([i \in DOMAIN h[x].children |-> leaves(h, h[x].children[i])])

(***************************************************************************)
(* The parser driver (pgen2, outside this file): it shifts the tokens of   *)
(* the source in order, calling convert on each leaf record, and reduces   *)
(* the topmost subtrees of its stack, calling convert on the record of the *)
(* reduction and putting the result in their place.  It stops at the first *)
(* exception.  The parse is complete when every token is shifted and one   *)
(* subtree is left: the root.                                              *)
(***************************************************************************)
TokenKinds ==
    {[type |-> t, value |-> "x"] : t \in NAME} \cup
    {[type |-> t, value |-> "\n"] : t \in NEWLINE}
TokenPrefixes == {"", " "}
TokenRecords ==
    {[type |-> k.type, value |-> k.value, prefix |-> p, start_pos |-> sp] :
        k \in TokenKinds, p \in TokenPrefixes, sp \in StartPos}
ParseSymbolTypes == {symbol2number.file_input}

Running == ret.err = "none"

InteriorNodes == Cardinality({x \in Objs : IsNode(heap, x)})

Shift ==
    /\ Running
    /\ pos <= Len(tokens)
    /\ LET tok == tokens[pos]
           r == convert(heap, _type_reprs, tok.type, tok.value,
                        <<tok.prefix, tok.start_pos>>, <<>>, "ok")
       IN  /\ heap' = r.heap
           /\ _type_reprs' = r.cache
           /\ ret' = [NoRet EXCEPT !.op = "convert", !.ctor = r.ctor, !.err = r.err,
                                   !.obj = r.obj, !.created = r.created]
           /\ stack' = Append(stack, r.obj)
    /\ pos' = pos + 1
    /\ UNCHANGED tokens

Reduce ==
    \E type \in ParseSymbolTypes, k \in 0..Len(stack), outcome \in CtorOutcomes :
        LET children == SubSeq(stack, Len(stack) - k + 1, Len(stack))
            r == convert(heap, _type_reprs, type, "", <<"", <<0, 0>>>>, children, outcome)
        IN  /\ Running
            /\ (type \notin DOMAIN ast_mapping \/ k = 1) => outcome = "ok"
            /\ k # 1 => InteriorNodes < MaxParseNodes
            /\ heap' = r.heap
            /\ _type_reprs' = r.cache
            /\ ret' = [NoRet EXCEPT !.op = "convert", !.ctor = r.ctor, !.err = r.err,
                                    !.obj = r.obj, !.created = r.created]
            /\ stack' = IF r.err = "none"
                        THEN Append(SubSeq(stack, 1, Len(stack) - k), r.obj)
                        ELSE stack
            /\ UNCHANGED <<tokens, pos>>

InitParse ==
    /\ heap = <<>>
    /\ _type_reprs = <<>>
    /\ ret = NoRet
    /\ tokens \in UNION {[1..n -> TokenRecords] : n \in 1..MaxTokens}
    /\ pos = 1
    /\ stack = <<>>

NextParse == Shift \/ Reduce

SpecParse == InitParse /\ [][NextParse]_vars

Complete == Running /\ pos > Len(tokens) /\ Len(stack) = 1

\* the source text: prefix + value of the leaf records, in source order
Source == Concat([i \in DOMAIN tokens |-> tokens[i].prefix \o tokens[i].value])

(***************************************************************************)
(* Properties.                                                             *)
(***************************************************************************)
Root == stack[1]

\* C1: when the driver has fed a whole source through convert, the root's
\* textual reconstruction, and prefix + value over root.leaves() in the
\* order yielded, both equal prefix + value of the leaf records in source
\* order.
C1_RoundTrip ==
    Complete =>
        /\ Str(heap, Root) = Source
        /\ LET ls == leaves(heap, Root)
           IN  Concat([i \in DOMAIN ls |-> heap[ls[i]].prefix \o heap[ls[i]].value])
                   = Source

\* a complete parse of three tokens, one with a prefix, whose root holds a
\* Node that holds leaves
C1_Witness ==
    /\ Complete
    /\ Len(tokens) = 3
    /\ \E i \in DOMAIN tokens : tokens[i].prefix # ""
    /\ IsNode(heap, Root)
    /\ \E i \in DOMAIN heap[Root].children :
          /\ IsNode(heap, heap[Root].children[i])
          /\ Len(leaves(heap, heap[Root].children[i])) = 2

\* C2: right after a Node is constructed, by Node(...) or by convert, each of
\* its children has it as parent, whatever the child's parent was.
C2_ChildrenParent ==
    (ret.op \in {"Node", "convert"} /\ ret.created \in {"Node", "Special"}) =>
        \A i \in DOMAIN heap[ret.obj].children :
            heap[heap[ret.obj].children[i]].parent = ret.obj

\* a Node just constructed from a child that another Node holds too
C2_Witness ==
    /\ ret.op \in {"Node", "convert"}
    /\ ret.created = "Node"
    /\ \E m \in Objs \ {ret.obj} :
          /\ IsNode(heap, m)
          /\ Range(heap[m].children) \cap Range(heap[ret.obj].children) # {}

\* C3: in every state, convert on a record of a registered symbol with one
\* child returns that child and changes nothing: no Node is constructed, no
\* parent is set, no specialized constructor is called, whatever it would do.
C3_Collapse ==
    \A type \in DOMAIN number2symbol, c \in Objs, outcome \in CtorOutcomes :
        convert(heap, _type_reprs, type, "", <<"", <<0, 0>>>>, <<c>>, outcome)
            = ConvertResult(heap, _type_reprs, "none", c, "none", "notcalled")

\* convert has just returned its single child, one that has a parent, and
\* specialized nodes are among the objects
C3_Witness ==
    /\ ret.op = "convert"
    /\ \E x \in Objs : heap[x].cls = "Special"
    /\ ret.created = "none"
    /\ ret.err = "none"
    /\ ret.obj # None
    /\ heap[ret.obj].parent # None

\* C4: when the specialized constructor that convert calls raises, convert
\* raises that error and returns no Node.
C4_CtorErrorPropagates ==
    (ret.op = "convert" /\ ret.ctor \in CtorOutcomes \ {"ok"}) =>
        (ret.err = ret.ctor /\ ret.created = "none")

RECURSIVE ChainEnd(_, _, _)
ChainEnd(h, x, fuel) ==
    IF fuel = 0 THEN None
    ELSE IF h[x].children = <<>> THEN x
    ELSE ChainEnd(h, h[x].children[1], fuel - 1)

SetOnParent == ret'.op = "set_prefix" /\ IsNode(heap, ret'.obj)

\* C6 as claimed: node.prefix = p on a Node with a child succeeds; the leaf
\* at the end of the first-child chain gets p, node.prefix then reads p, and
\* nothing else changes.
C6_SetPrefixForwards ==
    [][(SetOnParent /\ heap[ret'.obj].children # <<>>) =>
          LET l == ChainEnd(heap, ret'.obj, Len(heap) + 1)
          IN  /\ ret'.err = "none"
              /\ l # None
              /\ IsLeaf(heap, l)
              /\ heap' = [heap EXCEPT ![l].prefix = ret'.p]
              /\ prefix_get(heap', ret'.obj, Len(heap) + 1)
                     = [err |-> "none", val |-> ret'.p]]_vars

\* C6 as amended: the write goes down the first-child chain.  Ending in a
\* Leaf, it succeeds as claimed.  Ending in a childless Node it raises
\* NotImplementedError, never ending it raises RecursionError, and in both
\* cases nothing changes.
C6_Amended ==
    [][(SetOnParent /\ heap[ret'.obj].children # <<>>) =>
          LET l == ChainEnd(heap, ret'.obj, Len(heap) + 1)
          IN  IF l = None
              THEN ret'.err = "RecursionError" /\ heap' = heap
              ELSE IF IsLeaf(heap, l)
              THEN /\ ret'.err = "none"
                   /\ heap' = [heap EXCEPT ![l].prefix = ret'.p]
                   /\ prefix_get(heap', ret'.obj, Len(heap) + 1)
                          = [err |-> "none", val |-> ret'.p]
              ELSE ret'.err = "NotImplementedError" /\ heap' = heap]_vars

\* a Node whose prefix was just set: its first child has the new prefix, its
\* second child, a leaf too, has kept its own
C6_Witness ==
    /\ ret.op = "set_prefix"
    /\ ret.err = "none"
    /\ IsNode(heap, ret.obj)
    /\ Len(heap[ret.obj].children) = 2
    /\ LET a == heap[ret.obj].children[1]
           b == heap[ret.obj].children[2]
       IN  /\ IsLeaf(heap, a) /\ IsLeaf(heap, b)
           /\ heap[a].prefix = ret.p
           /\ heap[b].prefix # ret.p

\* C7: node.prefix = p on a childless Node raises NotImplementedError and
\* changes nothing; node.prefix on a childless Node reads "" and raises
\* nothing.
C7_ChildlessPrefix ==
    /\ [](\A n \in Objs :
            (IsNode(heap, n) /\ heap[n].children = <<>>) =>
                prefix_get(heap, n, Len(heap) + 1) = [err |-> "none", val |-> ""])
    /\ [][(SetOnParent /\ heap[ret'.obj].children = <<>>) =>
            (ret'.err = "NotImplementedError" /\ heap' = heap)]_vars

\* the prefix of a childless Node was just set, and the call raised
C7_Witness ==
    /\ ret.op = "set_prefix"
    /\ IsNode(heap, ret.obj)
    /\ heap[ret.obj].children = <<>>
    /\ ret.err = "NotImplementedError"

\* the places (Node, index) where c is a child
Occurrences(c) ==
    {<<n, i>> \in Objs \X (1..MaxLinks) :
        i \in DOMAIN heap[n].children /\ heap[n].children[i] = c}

\* C8: every object is a root, in no children sequence and without parent,
\* or is once in the children of one Node, which is its parent.
C8_SingleParent ==
    \A c \in Objs :
        \/ Occurrences(c) = {} /\ heap[c].parent = None
        \/ \E o \in Occurrences(c) : Occurrences(c) = {o} /\ heap[c].parent = o[1]

C10_TypeRepr ==
    ret.op = "type_repr" =>
        ret.val = IF ret.type \in DOMAIN number2symbol
                  THEN PyStr(number2symbol[ret.type])
                  ELSE PyInt(ret.type)

\* a symbol's name was just returned from a cache that holds two codes no
\* table holds, asked for earlier
C10_Witness ==
    /\ ret.op = "type_repr"
    /\ ret.type \in DOMAIN number2symbol
    /\ ret.val.tag = "str"
    /\ Cardinality(DOMAIN _type_reprs \ DOMAIN number2symbol) >= 2

====
